---- MODULE Spec2Model ----
(***************************************************************************)
(* The plan -> execute -> validate -> retry workflow of GenAgent Pro:      *)
(* the AgentState dictionary (core/state.py), the four agent nodes         *)
(* (agents/*.py), the routing functions of the LangGraph state machine and *)
(* run() (core/orchestrator.py).                                           *)
(*                                                                         *)
(* Texts are kept up to the one property the workflow reads from them:     *)
(* whether the lower-cased text contains the word "calculator"             *)
(* (validator_agent.py:208).  Scores are in hundredths (0.8 is 80).        *)
(* The external collaborators (planner LLM, executor LLM, tools, validator *)
(* LLM, vector store) are inputs drawn with \E from small sets.            *)
(***************************************************************************)
EXTENDS Integers, Sequences, FiniteSets, TLC

\* ------------------------------------------------------------- constants
MaxRetries == 2
Threshold == 80

\* Bounds of the model: tasks per plan, ids per dependency list.
MaxTasks == 2
MaxDeps == 1

PENDING == "pending"
IN_PROGRESS == "in_progress"
COMPLETED == "completed"
FAILED == "failed"

None == "None"

\* The tools the orchestrator registers with the executor.
RegisteredTools == {"calculator", "file_reader", "python_executor", "memory_search"}

\* The two classes of text: containing the word "calculator" or not.
WithCalculator == "...calculator..."
Plain == "..."
TextOf(mention) == IF mention THEN WithCalculator ELSE Plain

\* Task ids as the planner prompt names them; the last one a plan can
\* mention is never the id of a task of that plan (a dangling reference).
IdNames == <<"task_1", "task_2", "task_3", "task_4", "task_5", "task_6">>
Ids == {IdNames[k] : k \in 1..(MaxTasks + 1)}

VARIABLES
    \* AgentState (core/state.py)
    task_plan, current_task_index, tool_calls, execution_results,
    validation_result, validation_passed, retry_count,
    conversation_history, retrieved_context, next_agent, iteration_count,
    is_complete, final_output, errors, warnings,
    \* the node the graph run is at ("END" once it has ended)
    node,
    \* observation of the run: what the latest node invocation called, how
    \* often each node ran, how many validations failed, whether every
    \* tool_calls entry so far comes from an invocation of the calculator
    last_step, visits, failed_validations, calculator_only,
    \* two run() calls on one orchestrator: the run whose state and position
    \* the variables above hold, and the state and position of the other
    active, parked,
    \* a call of a tool's execute on its own: the tool with the input it
    \* was given, and the Result it returned
    tool_call, tool_result

state_vars == <<task_plan, current_task_index, tool_calls, execution_results,
                validation_result, validation_passed, retry_count,
                conversation_history, retrieved_context, next_agent,
                iteration_count, is_complete, final_output, errors, warnings>>
ctl_vars == <<node, last_step, visits, failed_validations, calculator_only>>
tool_vars == <<tool_call, tool_result>>
vars == <<state_vars, ctl_vars, active, parked, tool_vars>>

\* The AgentState of the active run, and its position in the graph with
\* the observations of it.
State ==
    [task_plan |-> task_plan, current_task_index |-> current_task_index,
     tool_calls |-> tool_calls, execution_results |-> execution_results,
     validation_result |-> validation_result, validation_passed |-> validation_passed,
     retry_count |-> retry_count, conversation_history |-> conversation_history,
     retrieved_context |-> retrieved_context, next_agent |-> next_agent,
     iteration_count |-> iteration_count, is_complete |-> is_complete,
     final_output |-> final_output, errors |-> errors, warnings |-> warnings]

Control ==
    [node |-> node, last_step |-> last_step, visits |-> visits,
     failed_validations |-> failed_validations, calculator_only |-> calculator_only]

\* ------------------------------------------------------------- helpers
SeqsUpTo(S, n) == UNION {[1..k -> S] : k \in 0..n}
Distinct(s) == \A a, b \in DOMAIN s : a # b => s[a] # s[b]

\* Dependency lists a producer may write: ids without repetition.
DepLists == {d \in SeqsUpTo(Ids, MaxDeps) : Distinct(d)}

\* A plan as parsed from the producer's JSON: one dict per task.
PlanDicts == UNION {{p \in [1..n -> [id : Ids, dependencies : DepLists]] :
                        \A i \in 1..n : p[i].id = IdNames[i]} : n \in 0..MaxTasks}

\* context: the "Previous Results" the prompt of an LLM call carries;
\* selected: the tool name the LLM's answer selects; answer: that answer
\* (for the validator: whether the scorer's call failed, or its answer was
\* unparseable or a JSON verdict).
Step(agent, task, llm, tool, success) ==
    [agent |-> agent, task |-> task, llm_called |-> llm,
     tool_called |-> tool, tool_success |-> success, context |-> <<>>,
     selected |-> None, answer |-> None]

Visit(a) == [visits EXCEPT ![a] = @ + 1]

\* dict[key] = value
\* Mutant: a key that is present keeps its value (setdefault for the
\* assignment).
Put_KeepFirst(d, key, value) ==
    [k \in DOMAIN d \cup {key} |-> IF k \in DOMAIN d THEN d[k] ELSE value]

\* d[key] = value on a dict
Put(d, key, value) == [k \in DOMAIN d \cup {key} |-> IF k = key THEN value ELSE d[k]]

\* ------------------------------------------------------------- state.py
Init ==
    /\ task_plan = <<>>
    /\ current_task_index = 0
    /\ tool_calls = <<>>
    /\ execution_results = <<>>
    /\ validation_result = <<>>
    /\ validation_passed = FALSE
    /\ retry_count = 0
    /\ conversation_history = <<>>
    /\ retrieved_context = None
    /\ next_agent = "planner"
    /\ iteration_count = 0
    /\ is_complete = FALSE
    /\ final_output = <<>>
    /\ errors = <<>>
    /\ warnings = <<>>
    /\ node = "planner"
    /\ last_step = Step("start", None, FALSE, None, None)
    /\ visits = [a \in {"planner", "executor", "validator", "memory"} |-> 0]
    /\ failed_validations = 0
    /\ calculator_only = TRUE
    \* the other call of run() made its state with the same function
    /\ active = 1
    /\ parked = [state |-> State, ctl |-> Control]
    \* no tool has been called yet
    /\ tool_call = <<>>
    /\ tool_result = <<>>

\* ------------------------------------------------------------- routing
\* Mutant: the router does not look at the plan ('or not state["task_plan"]'
\* left out).
RouteFromPlanner_IgnoresEmptyPlan(na, plan) == IF na = "end" THEN "END" ELSE "executor"

RouteFromPlanner(na, plan) ==
    IF na = "end" \/ plan = <<>> THEN "END" ELSE "executor"

RouteFromExecutor(na) ==
    IF na = "executor" THEN "executor"
    ELSE IF na = "validator" THEN "validator"
    ELSE "END"

\* Mutant: every finished validation is routed to the memory node.
RouteFromValidator_AlwaysMemory(complete, passed) ==
    IF complete THEN "memory" ELSE "executor"

\* Mutant: the route is taken from validation_passed alone.
RouteFromValidator_IgnoreComplete(complete, passed) ==
    IF passed THEN "memory" ELSE "executor"

RouteFromValidator(complete, passed) ==
    IF complete
    THEN IF passed THEN "memory" ELSE "END"
    ELSE "executor"

\* ------------------------------------------------------------- planner
NewTask(d) ==
    [id |-> d.id, status |-> PENDING, dependencies |-> d.dependencies,
     result |-> None, error |-> None]

\* The producer either fails (the call raises, or no plan can be parsed
\* from its answer) or answers with a list of task dicts.
PlannerResponses ==
    {[kind |-> "error", tasks |-> <<>>]} \cup {[kind |-> "plan", tasks |-> p] : p \in PlanDicts}

PlannerStep(Ps) ==
    /\ node = "planner"
    /\ \E resp \in Ps :
        IF resp.kind = "error"
        THEN /\ errors' = Append(errors, <<"Planning error", None>>)
             /\ next_agent' = "end"
             /\ is_complete' = TRUE
             /\ UNCHANGED <<task_plan, current_task_index, iteration_count>>
        ELSE /\ task_plan' = [i \in DOMAIN resp.tasks |-> NewTask(resp.tasks[i])]
             /\ current_task_index' = 0
             /\ next_agent' = "executor"
             /\ iteration_count' = iteration_count + 1
             /\ UNCHANGED <<errors, is_complete>>
    /\ node' = RouteFromPlanner(next_agent', task_plan')
    /\ last_step' = Step("planner", None, TRUE, None, None)
    /\ visits' = Visit("planner")
    /\ UNCHANGED <<tool_calls, execution_results, validation_result,
                   validation_passed, retry_count, conversation_history,
                   retrieved_context, final_output, warnings,
                   failed_validations, calculator_only, active, parked, tool_vars>>

PlannerNode == PlannerStep(PlannerResponses)

\* ------------------------------------------------------------- executor
\* What the executor's LLM and the selected tool answer in one step:
\*   kind     "raise" (the LLM call fails), "tool" (the answer has the form
\*            TOOL: <name> | INPUT: <input>) or "direct" (any other answer)
\*   tool     the name after TOOL:
\*   outcome  what tool.execute does when it is called: returns
\*            success=True or returns success=False (the execute of every
\*            registered tool catches Exception, so none of them raises)
\*   mention  whether the text the answer or the tool contributes contains
\*            the word "calculator"
Response(k, t, o, m) == [kind |-> k, tool |-> t, outcome |-> o, mention |-> m]

Responses ==
    {Response("raise", None, None, FALSE)}
    \cup {Response("tool", "calculator", o, FALSE) : o \in {"success", "failure"}}
    \cup {Response("tool", "python_executor", o, FALSE) : o \in {"success", "failure"}}
    \cup {Response("tool", t, None, FALSE) : t \in {"web_search", "Calculator"}}
    \cup {Response("direct", None, None, m) : m \in BOOLEAN}

\* Mutant: a dependency that names no task is skipped instead of failing
\* the check ("if dep_task and ..." for "if not dep_task or ...").
CheckDependencies_SkipMissing(task, plan) ==
    \A k \in DOMAIN task.dependencies :
        \A i \in DOMAIN plan :
            plan[i].id = task.dependencies[k] => plan[i].status = COMPLETED

\* Mutant: a dependency counts as unmet only when its task has failed
\* ('== TaskStatus.FAILED' for '!= TaskStatus.COMPLETED').
CheckDependencies_UnlessFailed(task, plan) ==
    \A k \in DOMAIN task.dependencies :
        /\ \E i \in DOMAIN plan : plan[i].id = task.dependencies[k]
        /\ LET first == CHOOSE i \in DOMAIN plan :
                            /\ plan[i].id = task.dependencies[k]
                            /\ \A j \in 1..(i - 1) : plan[j].id # task.dependencies[k]
           IN plan[first].status # FAILED

CheckDependencies(task, plan) ==
    \A k \in DOMAIN task.dependencies :
        /\ \E i \in DOMAIN plan : plan[i].id = task.dependencies[k]
        /\ LET first == CHOOSE i \in DOMAIN plan :
                            /\ plan[i].id = task.dependencies[k]
                            /\ \A j \in 1..(i - 1) : plan[j].id # task.dependencies[k]
           IN plan[first].status = COMPLETED

\* The text of the LLM's answer: "TOOL: <name> | INPUT: <input>" holds the
\* selected name.
LLMText(resp) ==
    TextOf(resp.mention \/ (resp.kind = "tool" /\ resp.tool \in {"calculator", "Calculator"}))

\* Mutant: the selected name is used without the test "tool_name in
\* self.tools".
ToolCalled_Unchecked(resp) == resp.kind = "tool"

\* Whether _execute_with_tools calls a tool's execute.
ToolCalled(resp) == resp.kind = "tool" /\ resp.tool \in RegisteredTools

\* The text _execute_with_tools returns.
ExecuteWithTools(resp) ==
    IF ToolCalled(resp)
    THEN CASE resp.outcome = "success" ->   \* "Tool {tool_name} executed successfully:\n{result}"
                  TextOf(resp.tool = "calculator" \/ resp.mention)
           [] resp.outcome = "failure" ->   \* "Tool {tool_name} failed: {error}"
                  TextOf(resp.tool = "calculator" \/ resp.mention)
           [] OTHER ->                      \* "Tool execution failed: {e}"
                  TextOf(resp.mention)
    ELSE LLMText(resp)                      \* the LLM response as it is

\* Mutant: the executor hands over to the validator after every task.
NextAfterTask_AlwaysValidator(index, plan) == "validator"

\* Mutant: the comparison of executor_agent.py:91 written <= instead of <.
NextAfterTask_OffByOne(index, plan) ==
    IF index <= Len(plan) THEN "executor" ELSE "validator"

\* next_agent after a completed task (executor_agent.py:91-94)
NextAfterTask(index, plan) == IF index < Len(plan) THEN "executor" ELSE "validator"

\* current_task["status"] = TaskStatus.IN_PROGRESS (executor_agent.py:59)
MarkInProgress(plan, i) == [plan EXCEPT ![i].status = IN_PROGRESS]

\* Mutant: the result is stored and the status is left as it is.
CompleteTask_ResultOnly(plan, i, result) == [plan EXCEPT ![i].result = result]

\* current_task["status"] = COMPLETED; current_task["result"] = result
\* (executor_agent.py:71-72)
CompleteTask(plan, i, result) ==
    [plan EXCEPT ![i].status = COMPLETED, ![i].result = result]

\* Mutant: the except clause records the error text and leaves the status
\* the task had when the failure happened (IN_PROGRESS).
MarkFailed_KeepsStatus(plan, i, error) == [plan EXCEPT ![i].error = error]

\* The except clause of execute on the task at the cursor
\* (executor_agent.py:100-102).
MarkFailed(plan, i, error) ==
    [plan EXCEPT ![i].status = FAILED, ![i].error = error]

\* Mutant: a completed task is not counted as an iteration.
CountIteration_Skip(count) == count

\* state["iteration_count"] += 1 (executor_agent.py:88)
CountIteration(count) == count + 1

\* Mutant: the cursor is moved with -= 1 instead of += 1.
AdvanceCursor_Decrement(index) == index - 1

\* state["current_task_index"] += 1 (executor_agent.py:87)
AdvanceCursor(index) == index + 1

\* Mutant: the context lists every recorded result, not those of the
\* task's dependencies ("for dep_id in state['execution_results']").
BuildExecutionContext_AllResults(task, results) ==
    LET present == SelectSeq(IdNames, LAMBDA d : d \in DOMAIN results)
    IN [k \in DOMAIN present |-> [task_id |-> present[k], result |-> results[present[k]]]]

\* The context lines of _build_execution_prompt: "Result from {dep_id}:
\* {result}" for each id of task["dependencies"] that has a recorded result.
BuildExecutionContext(task, results) ==
    LET present == SelectSeq(task.dependencies, LAMBDA d : d \in DOMAIN results)
    IN [k \in DOMAIN present |-> [task_id |-> present[k], result |-> results[present[k]]]]

\* Mutant: the entry is put in front of the log (insert(0, ...)).
LogToolCall_Prepend(calls, entry) == <<entry>> \o calls

\* state["tool_calls"].append({...}) (executor_agent.py:78-82)
LogToolCall(calls, entry) == Append(calls, entry)

ExecutorStep(Rs) ==
    /\ node = "executor"
    /\ IF current_task_index >= Len(task_plan)
       THEN /\ next_agent' = "validator"
            /\ last_step' = Step("executor", None, FALSE, None, None)
            /\ UNCHANGED <<task_plan, current_task_index, tool_calls,
                           execution_results, iteration_count, errors,
                           calculator_only>>
       ELSE LET i == current_task_index + 1
                task == task_plan[i]
            IN IF ~CheckDependencies(task, task_plan)
               THEN /\ task_plan' = [task_plan EXCEPT ![i].status = FAILED,
                                                      ![i].error = "Dependencies not met"]
                    /\ errors' = Append(errors, <<"Dependencies not met for", task.id>>)
                    /\ next_agent' = "validator"
                    /\ last_step' = Step("executor", task.id, FALSE, None, None)
                    /\ UNCHANGED <<current_task_index, tool_calls, execution_results,
                                   iteration_count, calculator_only>>
               ELSE \E resp \in Rs :
                    IF resp.kind = "raise"
                    THEN \* IN_PROGRESS was set; the except clause overwrites it
                         /\ task_plan' = MarkFailed(MarkInProgress(task_plan, i), i,
                                                    "LLM invocation failed")
                         /\ errors' = Append(errors, <<"Execution error", task.id>>)
                         /\ next_agent' = "validator"
                         /\ last_step' = [Step("executor", task.id, TRUE, None, None)
                                            EXCEPT !.context = BuildExecutionContext(task, execution_results)]
                         /\ UNCHANGED <<current_task_index, tool_calls,
                                        execution_results, iteration_count,
                                        calculator_only>>
                    ELSE LET result == ExecuteWithTools(resp)
                         IN /\ task_plan' = CompleteTask(MarkInProgress(task_plan, i), i, result)
                            /\ execution_results' = Put(execution_results, task.id, result)
                            /\ tool_calls' = LogToolCall(tool_calls,
                                                         [task_id |-> task.id, result |-> result])
                            /\ current_task_index' = AdvanceCursor(current_task_index)
                            /\ iteration_count' = CountIteration(iteration_count)
                            /\ next_agent' = NextAfterTask(current_task_index', task_plan')
                            /\ last_step' = [Step("executor", task.id, TRUE,
                                                  IF ToolCalled(resp) THEN resp.tool ELSE None,
                                                  IF ToolCalled(resp) THEN resp.outcome ELSE None)
                                               EXCEPT !.context = BuildExecutionContext(task, execution_results),
                                                      !.selected = IF resp.kind = "tool" THEN resp.tool ELSE None,
                                                      !.answer = LLMText(resp)]
                            /\ calculator_only' = (calculator_only /\ ToolCalled(resp)
                                                                   /\ resp.tool = "calculator")
                            /\ UNCHANGED errors
    /\ node' = RouteFromExecutor(next_agent')
    /\ visits' = Visit("executor")
    /\ UNCHANGED <<validation_result, validation_passed, retry_count,
                   conversation_history, retrieved_context, is_complete,
                   final_output, warnings, failed_validations, active, parked,
                   tool_vars>>

ExecutorNode == ExecutorStep(Responses)

\* ------------------------------------------------------------- validator
\* Mutant: the result is compared with the tool's name ("calculator" !=
\* result.lower()) instead of searched for it; no result text is only the name.
MentionsCalculator_Equality(text) == text = "calculator"

MentionsCalculator(text) == text = WithCalculator

\* Mutant: the test of errors is inverted ("if not state.get('errors')").
IsSimpleCalculatorTask_InvertedErrors(calls, errs, plan) ==
    /\ \A k \in DOMAIN calls : MentionsCalculator(calls[k].result)
    /\ errs # <<>>
    /\ Len(SelectSeq(plan, LAMBDA t : t.status = COMPLETED)) = Len(plan)

\* Mutant: the test of state["errors"] is left out.
IsSimpleCalculatorTask_IgnoresErrors(calls, errs, plan) ==
    /\ \A k \in DOMAIN calls : MentionsCalculator(calls[k].result)
    /\ Len(SelectSeq(plan, LAMBDA t : t.status = COMPLETED)) = Len(plan)

IsSimpleCalculatorTask(calls, errs, plan) ==
    /\ \A k \in DOMAIN calls : MentionsCalculator(calls[k].result)
    /\ errs = <<>>
    /\ Len(SelectSeq(plan, LAMBDA t : t.status = COMPLETED)) = Len(plan)

\* One line pair per completed or failed task, in plan order, then the
\* feedback of the validation result when there is one.
OutputEntry(t) ==
    IF t.status = COMPLETED
    THEN [mark |-> "done", task |-> t.id, text |-> t.result]
    ELSE [mark |-> "failed", task |-> t.id, text |-> t.error]

\* Mutant: the failed tasks are left out of the report.
CompileFinalOutput_CompletedOnly(plan, vr) ==
    LET shown == SelectSeq(plan, LAMBDA t : t.status = COMPLETED)
    IN [tasks |-> [k \in DOMAIN shown |-> OutputEntry(shown[k])],
        validation |-> IF vr # <<>> THEN <<vr[1].feedback>> ELSE <<>>]

CompileFinalOutput(plan, vr) ==
    LET shown == SelectSeq(plan, LAMBDA t : t.status \in {COMPLETED, FAILED})
    IN [tasks |-> [k \in DOMAIN shown |-> OutputEntry(shown[k])],
        validation |-> IF vr # <<>> THEN <<vr[1].feedback>> ELSE <<>>]

\* What the validator's LLM answers: the call fails, the answer holds no
\* JSON object that can be parsed, or it holds a verdict.
Scores == {79, 80}
ScorerResponses ==
    {[kind |-> "raise", valid |-> FALSE, score |-> 0],
     [kind |-> "garbage", valid |-> FALSE, score |-> 0]}
    \cup {[kind |-> "json", valid |-> v, score |-> s] : v \in BOOLEAN, s \in Scores}

\* Mutant: an answer without a JSON object is taken for a full-score
\* verdict instead of {"valid": False, "score": 0.0, ...}.
ParseValidation_DefaultsToValid(resp) ==
    IF resp.kind = "json"
    THEN [valid |-> resp.valid, score |-> resp.score, feedback |-> "feedback"]
    ELSE [valid |-> TRUE, score |-> 100, feedback |-> "Invalid validation format"]

ParseValidation(resp) ==
    IF resp.kind = "json"
    THEN [valid |-> resp.valid, score |-> resp.score, feedback |-> "feedback"]
    ELSE [valid |-> FALSE, score |-> 0, feedback |-> "Invalid validation format"]

AutoValidated ==
    [valid |-> TRUE, score |-> 100, feedback |-> "Auto-validated"]

\* Mutant: the decision of validator_agent.py:82 looks at the score only.
Accepts_ScoreOnly(vr) == vr.score >= Threshold

\* "if is_valid and score >= self.threshold" (validator_agent.py:82)
Accepts(vr) == vr.valid /\ vr.score >= Threshold

\* Mutant: the comparison of validator_agent.py:90 written <= instead of <.
RetryAllowed_OffByOne(rc) == rc <= MaxRetries

RetryAllowed(rc) == rc < MaxRetries

\* Mutant: the retry warning replaces the list instead of being appended
\* to it.
RecordRetry_Replace(warns, count, feedback) == <<<<"Retry", count, feedback>>>>

\* state["warnings"].append(f"Retry {retry_count}: {feedback}")
\* (validator_agent.py:94)
RecordRetry(warns, count, feedback) == Append(warns, <<"Retry", count, feedback>>)

\* Mutant: the retry resets every task of the plan, not only the failed
\* ones, and drops the results with the statuses.
ResetFailed_All(plan) ==
    [i \in DOMAIN plan |-> [plan[i] EXCEPT !.status = PENDING, !.result = None]]

\* Mutant: the retry leaves the failed tasks failed.
ResetFailed_Skipped(plan) == plan

ResetFailed(plan) ==
    [i \in DOMAIN plan |->
        IF plan[i].status = FAILED THEN [plan[i] EXCEPT !.status = PENDING] ELSE plan[i]]

ValidatorStep(Vs) ==
    /\ node = "validator"
    /\ IF IsSimpleCalculatorTask(tool_calls, errors, task_plan)
       THEN /\ validation_passed' = TRUE
            /\ validation_result' = <<AutoValidated>>
            /\ final_output' = <<CompileFinalOutput(task_plan, validation_result')>>
            /\ next_agent' = "end"
            /\ is_complete' = TRUE
            /\ last_step' = Step("validator", None, FALSE, None, None)
            /\ UNCHANGED <<task_plan, current_task_index, retry_count, errors, warnings>>
       ELSE IF \A i \in DOMAIN task_plan : task_plan[i].status \notin {COMPLETED, FAILED}
       THEN /\ validation_passed' = FALSE
            /\ next_agent' = "end"
            /\ is_complete' = TRUE
            /\ last_step' = Step("validator", None, FALSE, None, None)
            /\ UNCHANGED <<task_plan, current_task_index, retry_count, errors,
                           warnings, validation_result, final_output>>
       ELSE \E resp \in Vs :
            /\ last_step' = [Step("validator", None, TRUE, None, None)
                                 EXCEPT !.answer = resp.kind]
            /\ IF resp.kind = "raise"
               THEN /\ errors' = Append(errors, <<"Validation error", None>>)
                    /\ validation_passed' = FALSE
                    /\ next_agent' = "end"
                    /\ is_complete' = TRUE
                    /\ UNCHANGED <<task_plan, current_task_index, retry_count,
                                   warnings, validation_result, final_output>>
               ELSE LET vr == ParseValidation(resp)
                    IN /\ validation_result' = <<vr>>
                       /\ IF Accepts(vr)
                          THEN /\ validation_passed' = TRUE
                               /\ final_output' = <<CompileFinalOutput(task_plan, <<vr>>)>>
                               /\ next_agent' = "end"
                               /\ is_complete' = TRUE
                               /\ UNCHANGED <<task_plan, current_task_index,
                                              retry_count, errors, warnings>>
                          ELSE IF RetryAllowed(retry_count)
                          THEN /\ validation_passed' = FALSE
                               /\ retry_count' = retry_count + 1
                               /\ warnings' = RecordRetry(warnings, retry_count', vr.feedback)
                               /\ current_task_index' = 0
                               /\ task_plan' = ResetFailed(task_plan)
                               /\ next_agent' = "executor"
                               /\ UNCHANGED <<errors, final_output, is_complete>>
                          ELSE /\ validation_passed' = FALSE
                               /\ errors' = Append(errors,
                                                   <<"Validation failed after max retries", None>>)
                               /\ final_output' = <<CompileFinalOutput(task_plan, <<vr>>)>>
                               /\ next_agent' = "end"
                               /\ is_complete' = TRUE
                               /\ UNCHANGED <<task_plan, current_task_index,
                                              retry_count, warnings>>
    /\ node' = RouteFromValidator(is_complete', validation_passed')
    /\ visits' = Visit("validator")
    /\ failed_validations' = IF validation_passed' THEN failed_validations
                                                   ELSE failed_validations + 1
    /\ UNCHANGED <<tool_calls, execution_results, conversation_history,
                   retrieved_context, iteration_count, calculator_only,
                   active, parked, tool_vars>>

ValidatorNode == ValidatorStep(ScorerResponses)

\* ------------------------------------------------------------- memory
\* Storing and retrieving catch their own failures; what can still fail is
\* the statistics call after the history was extended.
\* Mutant: the except clause records the failure in errors.
MemoryFailure_AsError(errs, warns) ==
    [errors |-> Append(errs, <<"Memory error", None>>), warnings |-> warns]

\* The except clause of MemoryAgent.execute (memory_agent.py:62-65): what
\* errors and warnings are after a failure of the vector store.
MemoryFailure(errs, warns) ==
    [errors |-> errs, warnings |-> Append(warns, <<"Memory error", 0, None>>)]

MemoryNode ==
    /\ node = "memory"
    /\ \E sink \in {"ok", "fails"} :
        /\ retrieved_context' = "retrieved"
        /\ conversation_history' =
              IF final_output # <<>>
              THEN conversation_history \o <<"user", "assistant">>
              ELSE Append(conversation_history, "user")
        /\ warnings' = IF sink = "fails"
                       THEN MemoryFailure(errors, warnings).warnings
                       ELSE warnings
        /\ errors' = IF sink = "fails"
                     THEN MemoryFailure(errors, warnings).errors
                     ELSE errors
    /\ node' = "END"
    /\ last_step' = Step("memory", None, FALSE, None, None)
    /\ visits' = Visit("memory")
    /\ UNCHANGED <<task_plan, current_task_index, tool_calls, execution_results,
                   validation_result, validation_passed, retry_count, next_agent,
                   iteration_count, is_complete, final_output,
                   failed_validations, calculator_only, active, parked, tool_vars>>

\* ------------------------------------------------------------- run()
\* The graph has ended when node = "END"; workflow.invoke then returns the
\* final state and run() builds its result from it.
\* Mutant: the envelope's success repeats the verdict instead of being
\* True whenever workflow.invoke returned.
ReturnedResult_SuccessIsVerdict ==
    [success |-> validation_passed,
     output |-> final_output,
     validation_passed |-> validation_passed,
     iterations |-> iteration_count,
     errors |-> errors,
     warnings |-> warnings]

\* The result run() builds when workflow.invoke returns the final state.
ReturnedResult ==
    [success |-> TRUE,
     output |-> final_output,
     validation_passed |-> validation_passed,
     iterations |-> iteration_count,
     errors |-> errors,
     warnings |-> warnings]

\* The result run() builds in its except clause.
FailedResult ==
    [success |-> FALSE,
     output |-> <<"Workflow failed">>,
     validation_passed |-> FALSE,
     iterations |-> 0,
     errors |-> <<<<"Workflow failed", None>>>>,
     warnings |-> <<>>]

\* Mutant: run() without its except clause; the exception of
\* workflow.invoke reaches the caller.
RunResult_Propagates ==
    IF node = "RAISED" THEN [exception |-> "propagated"] ELSE ReturnedResult

RunResult == IF node = "RAISED" THEN FailedResult ELSE ReturnedResult

Next == PlannerNode \/ ExecutorNode \/ ValidatorNode \/ MemoryNode

Spec == Init /\ [][Next]_vars

\* Runs in which every task is answered by the call of a registered tool
\* that reports success=False, and the validator's LLM never returns an
\* accepting verdict.
FailingToolResponses ==
    {Response("tool", t, "failure", FALSE) : t \in {"calculator", "python_executor"}}

RejectingScorerResponses ==
    {r \in ScorerResponses : r.kind # "raise" /\ ~Accepts(ParseValidation(r))}

NextToolsFail ==
    \/ PlannerNode
    \/ ExecutorStep(FailingToolResponses)
    \/ ValidatorStep(RejectingScorerResponses)
    \/ MemoryNode

SpecToolsFail == Init /\ [][NextToolsFail]_vars

\* workflow.invoke raises instead of invoking the next node (the graph
\* runtime fails, for instance on its step limit); the nodes themselves
\* catch the failures of their collaborators.  The run is over at "RAISED".
InvokeRaises ==
    /\ node \notin {"END", "RAISED"}
    /\ node' = "RAISED"
    /\ UNCHANGED <<state_vars, last_step, visits, failed_validations,
                   calculator_only, active, parked, tool_vars>>

NextRaising == Next \/ InvokeRaises

SpecRaising == Init /\ [][NextRaising]_vars

\* ------------------------------------------------- two concurrent runs
\* Two calls of run() on one orchestrator, their node invocations
\* interleaved in any order.  Each call holds the dictionary that
\* create_initial_state returned to it; the agents, the tools and the
\* compiled graph are shared and keep nothing of a run in their fields.
Runs == {1, 2}
Other(r) == 3 - r

\* Mutant: one module-level dictionary (with its lists) is handed to every
\* call instead of a new one.
CreateInitialState_Shared(r) == 1

\* The identity of the dictionary create_initial_state returns to call r:
\* a new dictionary with new lists at every call.
CreateInitialState(r) == r

SameObject == CreateInitialState(active) = CreateInitialState(Other(active))

\* The AgentState the run that is not active holds.
OtherState == IF SameObject THEN State ELSE parked.state

LoadState(st) ==
    /\ task_plan' = st.task_plan
    /\ current_task_index' = st.current_task_index
    /\ tool_calls' = st.tool_calls
    /\ execution_results' = st.execution_results
    /\ validation_result' = st.validation_result
    /\ validation_passed' = st.validation_passed
    /\ retry_count' = st.retry_count
    /\ conversation_history' = st.conversation_history
    /\ retrieved_context' = st.retrieved_context
    /\ next_agent' = st.next_agent
    /\ iteration_count' = st.iteration_count
    /\ is_complete' = st.is_complete
    /\ final_output' = st.final_output
    /\ errors' = st.errors
    /\ warnings' = st.warnings

LoadControl(c) ==
    /\ node' = c.node
    /\ last_step' = c.last_step
    /\ visits' = c.visits
    /\ failed_validations' = c.failed_validations
    /\ calculator_only' = c.calculator_only

\* The scheduler goes on with the other run, which has not ended: that
\* run continues at its own node on the dictionary it holds.
Switch ==
    /\ parked.ctl.node \notin {"END", "RAISED"}
    /\ active' = Other(active)
    /\ LoadControl(parked.ctl)
    /\ IF SameObject THEN UNCHANGED state_vars ELSE LoadState(parked.state)
    /\ parked' = [state |-> State, ctl |-> Control]
    /\ UNCHANGED tool_vars

\* The collaborators' answers in the concurrent runs: the producer fails
\* or plans one task; the executor's LLM fails, selects the calculator
\* (which succeeds) or answers directly; the scorer accepts or rejects.
ConcurrentPlannerResponses ==
    {r \in PlannerResponses :
        r.kind = "error" \/ (Len(r.tasks) = 1 /\ r.tasks[1].dependencies = <<>>)}

ConcurrentResponses ==
    {Response("raise", None, None, FALSE),
     Response("tool", "calculator", "success", FALSE),
     Response("direct", None, None, FALSE)}

ConcurrentScorerResponses == {r \in ScorerResponses : r.kind = "json" /\ r.score = Threshold}

NextConcurrent ==
    \/ PlannerStep(ConcurrentPlannerResponses)
    \/ ExecutorStep(ConcurrentResponses)
    \/ ValidatorStep(ConcurrentScorerResponses)
    \/ MemoryNode
    \/ Switch

SpecConcurrent == Init /\ [][NextConcurrent]_vars

\* ------------------------------------------------------------- tools
\* The Result dictionaries of BaseTool (tools/base_tool.py).  ran records
\* whether the tool handed its input to eval, exec, a file reader or the
\* vector store; a success response has no "error_type" key.
SuccessResponse(tool, result) ==
    [success |-> TRUE, result |-> result, error |-> None, error_type |-> None,
     tool |-> tool, ran |-> TRUE]

ErrorResponse(tool, error, error_type, ran) ==
    [success |-> FALSE, result |-> None, error |-> error, error_type |-> error_type,
     tool |-> tool, ran |-> ran]

\* An expression given to the calculator: whether it matches the pattern
\* of allowed characters, whether it contains one of the dangerous
\* keywords, and what eval does with it.
CalculatorInputs ==
    [chars_ok : BOOLEAN, keyword : BOOLEAN,
     eval : {"int", "float", "ZeroDivisionError", "ValueError", "SyntaxError", "TypeError"}]

CalculatorEval(i) ==
    CASE i.eval \in {"int", "float"} -> SuccessResponse("calculator", "value")
      [] i.eval = "ZeroDivisionError" ->
            ErrorResponse("calculator", "Division by zero", "MathError", TRUE)
      [] i.eval = "ValueError" ->
            ErrorResponse("calculator", "Math value error", "MathError", TRUE)
      [] i.eval = "SyntaxError" ->
            ErrorResponse("calculator", "Invalid mathematical syntax", "SyntaxError", TRUE)
      [] OTHER ->
            ErrorResponse("calculator", "Calculation failed", "CalculationError", TRUE)

\* Mutant: the expression is evaluated without the test of its characters.
CalculatorExecute_NoCharCheck(i) ==
    IF i.keyword
    THEN ErrorResponse("calculator", "Dangerous keywords detected in expression",
                       "SecurityError", FALSE)
    ELSE CalculatorEval(i)

CalculatorExecute(i) ==
    IF ~i.chars_ok
    THEN ErrorResponse("calculator", "Invalid characters in expression", "SecurityError", FALSE)
    ELSE IF i.keyword
    THEN ErrorResponse("calculator", "Dangerous keywords detected in expression",
                       "SecurityError", FALSE)
    ELSE CalculatorEval(i)

\* Code given to the Python executor: whether it contains one of the
\* dangerous keywords ("import os", ...), what compile_restricted does
\* with it and what exec does with the compiled code.
PythonExecutorInputs ==
    [keyword : BOOLEAN, compile : {"ok", "errors", "raises"},
     exec : {"output", "no_output", "raises"}]

PythonExecutorExecute(i) ==
    IF i.keyword
    THEN ErrorResponse("python_executor", "Dangerous operation not allowed", "SecurityError", FALSE)
    ELSE IF i.compile = "raises"
    THEN ErrorResponse("python_executor", "Execution error", "RuntimeError", FALSE)
    ELSE IF i.compile = "errors"
    THEN ErrorResponse("python_executor", "Compilation errors", "CompilationError", FALSE)
    ELSE IF i.exec = "raises"
    THEN ErrorResponse("python_executor", "Execution error", "RuntimeError", TRUE)
    ELSE SuccessResponse("python_executor",
                         IF i.exec = "output" THEN "output"
                         ELSE "Code executed successfully (no output)")

\* A path given to the file reader: what the file system says of it and
\* what the reader of its format does.
FileReaderInputs ==
    [exists : BOOLEAN, is_file : BOOLEAN, too_large : BOOLEAN,
     extension : {".pdf", ".txt", ".csv", ".docx", ".xlsx", ".exe"},
     read : {"content", "raises"}]

FileReaderExecute(i) ==
    IF ~i.exists
    THEN ErrorResponse("file_reader", "File not found", "FileNotFoundError", FALSE)
    ELSE IF ~i.is_file
    THEN ErrorResponse("file_reader", "Path is not a file", "ValueError", FALSE)
    ELSE IF i.too_large
    THEN ErrorResponse("file_reader", "File too large", "FileSizeError", FALSE)
    ELSE IF i.extension \notin {".pdf", ".txt", ".csv", ".docx", ".xlsx"}
    THEN ErrorResponse("file_reader", "Unsupported format", "FormatError", FALSE)
    ELSE IF i.read = "raises"
    THEN ErrorResponse("file_reader", "Failed to read file", "ReadError", TRUE)
    ELSE SuccessResponse("file_reader", "content")

\* A query given to the memory search: what the vector store does.
MemorySearchInputs == [search : {"raises", "empty", "results"}]

MemorySearchExecute(i) ==
    IF i.search = "raises"
    THEN ErrorResponse("memory_search", "Memory search failed", "SearchError", TRUE)
    ELSE SuccessResponse("memory_search",
                         IF i.search = "empty" THEN "No relevant memories found"
                         ELSE "results")

\* A call of each tool's execute, with any input.
CalculatorCall ==
    /\ \E i \in CalculatorInputs :
          /\ tool_call' = <<[tool |-> "calculator", input |-> i]>>
          /\ tool_result' = <<CalculatorExecute(i)>>
    /\ UNCHANGED <<state_vars, ctl_vars, active, parked>>

PythonExecutorCall ==
    /\ \E i \in PythonExecutorInputs :
          /\ tool_call' = <<[tool |-> "python_executor", input |-> i]>>
          /\ tool_result' = <<PythonExecutorExecute(i)>>
    /\ UNCHANGED <<state_vars, ctl_vars, active, parked>>

FileReaderCall ==
    /\ \E i \in FileReaderInputs :
          /\ tool_call' = <<[tool |-> "file_reader", input |-> i]>>
          /\ tool_result' = <<FileReaderExecute(i)>>
    /\ UNCHANGED <<state_vars, ctl_vars, active, parked>>

MemorySearchCall ==
    /\ \E i \in MemorySearchInputs :
          /\ tool_call' = <<[tool |-> "memory_search", input |-> i]>>
          /\ tool_result' = <<MemorySearchExecute(i)>>
    /\ UNCHANGED <<state_vars, ctl_vars, active, parked>>

NextTools == CalculatorCall \/ PythonExecutorCall \/ FileReaderCall \/ MemorySearchCall

SpecTools == Init /\ [][NextTools]_vars

\* The graph runtime invokes the next node as long as there is one.
\* ------------------------------------------------- the validator alone
\* No task of the plan is completed or failed (validator_agent.py:51-54
\* finds both lists empty).
NothingToValidate(plan) ==
    \A i \in DOMAIN plan : plan[i].status \notin {COMPLETED, FAILED}

\* ValidatorAgent.execute(state) called by a caller other than the graph,
\* on a state that has nothing to validate: the state create_initial_state
\* returned, or a state whose tasks are all pending (after planning, or
\* after a retry has reset the failed ones).
InvokeValidator ==
    /\ node \in {"planner", "executor"}
    /\ NothingToValidate(task_plan)
    /\ node' = "validator"
    /\ UNCHANGED <<state_vars, last_step, visits, failed_validations,
                   calculator_only, active, parked, tool_vars>>

NextValidator ==
    \/ PlannerNode
    \/ ExecutorNode
    \/ InvokeValidator
    \/ ValidatorNode
    \/ MemoryNode

SpecValidator == Init /\ [][NextValidator]_vars

FairSpec == Spec /\ WF_vars(Next)

\* ======================================================================
\* Properties
\* ======================================================================
StageCount ==
    visits["planner"] + visits["executor"] + visits["validator"] + visits["memory"]

\* Node invocations of a run that do not execute a task: one planning, one
\* validation per pass, one memory update.
StageOverhead == 1 + (MaxRetries + 1) + 1

TaskAt(index) == task_plan[index + 1]

\* C1: every run ends after at most n * (max retries + 1) + c node
\* invocations, n the number of planned tasks and c = StageOverhead: the
\* count of invocations never exceeds that bound, and as long as the graph
\* has not ended a node can be invoked (each invocation adds one to the
\* count, so the run reaches END).
C1_BoundedTermination ==
    /\ StageCount <= Len(task_plan) * (MaxRetries + 1) + StageOverhead
    /\ node # "END" => ENABLED Next

\* A run of a non-empty plan that used the whole bound.
C1_Witness ==
    /\ node = "END"
    /\ task_plan # <<>>
    /\ StageCount = Len(task_plan) * (MaxRetries + 1) + StageOverhead

\* C2: retry_count stays within 0..2, no node invocation lowers it, and a
\* validator -> executor transition is taken at most twice in a run (every
\* earlier validator invocation of the run was such a transition).
C2_RetryCountBounded ==
    /\ [](retry_count \in 0..MaxRetries)
    /\ [][retry_count' >= retry_count]_vars
    /\ [][(node = "validator" /\ node' = "executor") => visits["validator"] < MaxRetries]_vars

\* The second retry has been taken.
C2_Witness ==
    /\ retry_count = MaxRetries
    /\ node = "executor"
    /\ visits["validator"] = MaxRetries

\* C3 as claimed: once exactly two validations have failed the run is at
\* END with validation_passed = False (the second failing verdict is
\* terminal, no executor and no third validation follows).
C3_SecondFailureTerminal ==
    failed_validations = 2 =>
        /\ node = "END"
        /\ is_complete
        /\ ~validation_passed

\* C3 amended: a run has at most three failed validations, and once three
\* have failed (both retries are used) the run is at END with
\* validation_passed = False, whatever the feedback was; no executor and
\* no fourth validation follows.
C3_ThirdFailureTerminal ==
    /\ failed_validations <= MaxRetries + 1
    /\ visits["validator"] <= MaxRetries + 1
    /\ failed_validations = MaxRetries + 1 =>
          /\ node = "END"
          /\ is_complete
          /\ ~validation_passed
          /\ retry_count = MaxRetries

\* Three validations failed on verdicts of the scorer.
C3_Witness ==
    /\ failed_validations = MaxRetries + 1
    /\ node = "END"
    /\ last_step.agent = "validator"
    /\ last_step.llm_called
    /\ final_output # <<>>

\* A dependency id names no task of the plan, or names a task that is not
\* completed.
UnmetDependency(task, plan) ==
    \E k \in DOMAIN task.dependencies :
        \/ \A i \in DOMAIN plan : plan[i].id # task.dependencies[k]
        \/ \E i \in DOMAIN plan : /\ plan[i].id = task.dependencies[k]
                                  /\ plan[i].status # COMPLETED

C5_CompletedNotReexecuted ==
    [][(/\ node = "executor"
        /\ retry_count > 0
        /\ current_task_index < Len(task_plan)
        /\ TaskAt(current_task_index).status = COMPLETED)
       => /\ ~last_step'.llm_called
          /\ last_step'.tool_called = None
          /\ task_plan'[current_task_index + 1] = task_plan[current_task_index + 1]
    ]_vars

\* The task the latest executor step selected.
StepTask == task_plan[CHOOSE i \in DOMAIN task_plan : task_plan[i].id = last_step.task]

\* C6 as claimed: after a step that called a tool, the task is failed when
\* the tool reported success=False, and it is completed only when the tool
\* reported success=True.
C6_ToolFailureFailsTask ==
    (last_step.agent = "executor" /\ last_step.tool_called # None) =>
        /\ last_step.tool_success = "failure" => StepTask.status = FAILED
        /\ StepTask.status = COMPLETED => last_step.tool_success = "success"

FastPathTaken ==
    /\ last_step.agent = "validator"
    /\ ~last_step.llm_called
    /\ validation_passed

\* C8 as claimed: the validator auto-validates only when tool_calls is not
\* empty, every entry of it comes from a call of the calculator tool, and
\* errors is empty.
C8_FastPathOnlyCalculator ==
    FastPathTaken =>
        /\ tool_calls # <<>>
        /\ calculator_only
        /\ errors = <<>>

\* C9 as claimed: a run in which every tool call reported success=False
\* ends after 2 retries, with validation_passed = False and errors in the
\* result of run().
C9_AllToolsFail ==
    (node = "END" /\ tool_calls # <<>>) =>
        /\ retry_count = MaxRetries
        /\ ~RunResult.validation_passed
        /\ RunResult.errors # <<>>

\* C10 as claimed: when the producer answers with a plan of zero tasks the
\* run ends without an executor or validator invocation, is_complete = True
\* in the final state and run() returns success = False.
C10_EmptyPlan ==
    (/\ node = "END"
     /\ last_step.agent = "planner"
     /\ task_plan = <<>>
     /\ errors = <<>>)
    => /\ visits["executor"] = 0
       /\ visits["validator"] = 0
       /\ is_complete
       /\ RunResult.success = FALSE

\* C11 as claimed: when the producer fails (the call raises or no plan can
\* be parsed from its answer) the run ends right after the planner, without
\* an executor, validator or memory invocation, the failure is recorded in
\* errors, and run() returns success = False.
C11_PlannerFailure ==
    (/\ node = "END"
     /\ last_step.agent = "planner"
     /\ task_plan = <<>>
     /\ is_complete)
    => /\ visits["executor"] = 0
       /\ visits["validator"] = 0
       /\ visits["memory"] = 0
       /\ errors # <<>>
       /\ errors[Len(errors)][1] = "Planning error"
       /\ RunResult.errors = errors
       /\ RunResult.success = FALSE

\* C12: run() never lets an exception reach its caller: whenever the run is
\* over, by the end of the graph or by a failure raised by workflow.invoke
\* at any point of the run, run() returns a record with exactly the fields
\* success, output, validation_passed, iterations, errors and warnings;
\* after a failure of the workflow success is False and errors is not empty.
C12_AlwaysStructuredOutcome ==
    node \in {"END", "RAISED"} =>
        /\ DOMAIN RunResult = {"success", "output", "validation_passed",
                               "iterations", "errors", "warnings"}
        /\ RunResult.success \in BOOLEAN
        /\ RunResult.validation_passed \in BOOLEAN
        /\ RunResult.iterations \in Nat
        /\ node = "RAISED" => (~RunResult.success /\ RunResult.errors # <<>>)

\* The workflow failed in the middle of a run, after tasks were executed.
C12_Witness ==
    /\ node = "RAISED"
    /\ tool_calls # <<>>
    /\ retry_count > 0
    /\ ~RunResult.success

\* C13: in every reachable state 0 <= current_task_index <= len(task_plan),
\* and a node invocation leaves current_task_index as it is or raises it,
\* except the validator's retry step (the one that adds 1 to retry_count
\* and hands over to the executor), which sets it to 0.
C13_CursorMonotone ==
    /\ [](current_task_index >= 0 /\ current_task_index <= Len(task_plan))
    /\ [][\/ current_task_index' >= current_task_index
          \/ /\ node = "validator"
             /\ node' = "executor"
             /\ retry_count' = retry_count + 1
             /\ current_task_index' = 0]_vars

\* A retry has just set the cursor back to 0 from the end of a plan whose
\* tasks were executed.
C13_Witness ==
    /\ last_step.agent = "validator"
    /\ node = "executor"
    /\ retry_count = 1
    /\ current_task_index = 0
    /\ Len(tool_calls) = Len(task_plan)
    /\ Len(task_plan) > 1

\* C14: the validator's retry step changes, in the plan, only the status
\* of the failed tasks, which becomes pending: the plan keeps its length,
\* every task that is not failed (so every completed task, with its status
\* and result) is the same after the step, a failed task differs in its
\* status alone, and execution_results is the same after the step.
C14_RetryKeepsCompleted ==
    [][(node = "validator" /\ node' = "executor") =>
        /\ Len(task_plan') = Len(task_plan)
        /\ \A i \in DOMAIN task_plan :
              IF task_plan[i].status = FAILED
              THEN task_plan'[i] = [task_plan[i] EXCEPT !.status = PENDING]
              ELSE task_plan'[i] = task_plan[i]
        /\ \A i \in DOMAIN task_plan :
              task_plan[i].status = COMPLETED =>
                  /\ task_plan'[i].status = COMPLETED
                  /\ task_plan'[i].result = task_plan[i].result
                  /\ task_plan[i].id \in DOMAIN execution_results'
                  /\ execution_results'[task_plan[i].id] = task_plan[i].result
        /\ execution_results' = execution_results
    ]_vars

\* A retry has just been taken on a plan with a completed task, whose
\* result is kept, and a failed task, which is pending again.
C14_Witness ==
    /\ last_step.agent = "validator"
    /\ node = "executor"
    /\ \E i, j \in DOMAIN task_plan :
          /\ task_plan[i].status = COMPLETED
          /\ task_plan[i].result # None
          /\ task_plan[j].status = PENDING
          /\ task_plan[j].error # None

NoDependencies(plan) == \A i \in DOMAIN plan : plan[i].dependencies = <<>>

ScenarioA ==
    /\ node = "validator"
    /\ Len(task_plan) = 1
    /\ retry_count = 0
    /\ last_step.agent = "executor"
    /\ last_step.tool_called = "calculator"
    /\ last_step.tool_success = "success"

\* C17 as claimed: the run of a single task that the calculator completes
\* successfully is validated, and run() returns iterations = 1.
C17_ScenarioA_OneIteration ==
    [][ScenarioA => (validation_passed' /\ node' = "memory" /\ iteration_count' = 1)]_vars

\* C17 amended: the run of a single task that the calculator completes
\* successfully at its first execution is validated without a call of the
\* scorer and handed to the memory node with iteration_count = 2 (one for
\* the planning, one for the task); the memory node ends the run without
\* changing either, and run() returns them as validation_passed and
\* iterations.
C17_ScenarioA_TwoIterations ==
    /\ [][ScenarioA => /\ validation_passed'
                       /\ is_complete'
                       /\ ~last_step'.llm_called
                       /\ node' = "memory"
                       /\ iteration_count' = 2]_vars
    /\ [][node = "memory" => /\ node' = "END"
                             /\ validation_passed' = validation_passed
                             /\ iteration_count' = iteration_count]_vars
    /\ [](node = "END" => /\ RunResult.success
                          /\ RunResult.validation_passed = validation_passed
                          /\ RunResult.iterations = iteration_count)

\* The run of scenario A has ended.
C17_Witness ==
    /\ node = "END"
    /\ Len(task_plan) = 1
    /\ Len(tool_calls) = 1
    /\ calculator_only
    /\ retry_count = 0
    /\ visits["memory"] = 1
    /\ RunResult.validation_passed
    /\ RunResult.iterations = 2

\* The validator is entered with every tool_calls entry coming from a call
\* of the calculator, no error, and every task of the plan completed.
SimpleCalculation ==
    /\ node = "validator"
    /\ calculator_only
    /\ errors = <<>>
    /\ \A i \in DOMAIN task_plan : task_plan[i].status = COMPLETED

\* C18: entered in such a state, the validator sets the verdict to valid
\* with score 1.0 without calling the scorer, compiles final_output from
\* the plan, sets is_complete and validation_passed, and the graph goes on
\* to the memory node; the plan and the retry count stay as they are.  A
\* run validated on the fast path ends with success = True and
\* validation_passed = True in the result of run().
C18_FastPathSufficient ==
    /\ [][SimpleCalculation =>
            /\ validation_result' = <<[valid |-> TRUE, score |-> 100, feedback |-> "Auto-validated"]>>
            /\ ~last_step'.llm_called
            /\ final_output' # <<>>
            /\ Len(final_output'[1].tasks) = Len(task_plan)
            /\ is_complete'
            /\ validation_passed'
            /\ node' = "memory"
            /\ UNCHANGED <<task_plan, retry_count, errors>>]_vars
    /\ []((node = "END" /\ validation_result = <<AutoValidated>>) =>
            /\ visits["memory"] = 1
            /\ RunResult.success
            /\ RunResult.validation_passed
            /\ RunResult.output = final_output
            /\ RunResult.errors = <<>>)

\* The fast path has just validated a plan of several calculator tasks.
C18_Witness ==
    /\ FastPathTaken
    /\ node = "memory"
    /\ calculator_only
    /\ Len(task_plan) > 1
    /\ Len(tool_calls) = Len(task_plan)
    /\ validation_result = <<AutoValidated>>
    /\ final_output # <<>>

\* C19: the executor calls a tool only when the name its LLM selected is
\* exactly the name of a registered tool, and then it is that tool; when
\* the selected name is not registered no tool is called, the task is
\* completed with the LLM's answer as its result (in the plan, in
\* execution_results and in tool_calls), no error is recorded and the run
\* goes on with the next task, or with the validation after the last one.
C19_OnlyRegisteredTools ==
    /\ []((last_step.agent = "executor" /\ last_step.tool_called # None) =>
            /\ last_step.tool_called \in RegisteredTools
            /\ last_step.tool_called = last_step.selected)
    /\ [][(/\ node = "executor"
           /\ last_step'.agent = "executor"
           /\ last_step'.selected # None
           /\ last_step'.selected \notin RegisteredTools)
          => /\ last_step'.tool_called = None
             /\ task_plan'[current_task_index + 1].status = COMPLETED
             /\ task_plan'[current_task_index + 1].result = last_step'.answer
             /\ execution_results'[last_step'.task] = last_step'.answer
             /\ tool_calls'[Len(tool_calls')].result = last_step'.answer
             /\ errors' = errors
             /\ current_task_index' = current_task_index + 1
             /\ node' = IF current_task_index' < Len(task_plan) THEN "executor" ELSE "validator"
       ]_vars

\* The LLM selected a name that differs from a registered name only in its
\* case; the task is completed with the answer and the next task follows.
C19_Witness ==
    /\ last_step.agent = "executor"
    /\ last_step.selected = "Calculator"
    /\ last_step.tool_called = None
    /\ StepTask.status = COMPLETED
    /\ StepTask.result = last_step.answer
    /\ errors = <<>>
    /\ node = "executor"

\* The state create_initial_state builds.
FreshState ==
    [task_plan |-> <<>>, current_task_index |-> 0, tool_calls |-> <<>>,
     execution_results |-> <<>>, validation_result |-> <<>>,
     validation_passed |-> FALSE, retry_count |-> 0,
     conversation_history |-> <<>>, retrieved_context |-> None,
     next_agent |-> "planner", iteration_count |-> 0, is_complete |-> FALSE,
     final_output |-> <<>>, errors |-> <<>>, warnings |-> <<>>]

Rejected(call) ==
    \/ call.tool = "calculator" /\ (~call.input.chars_ok \/ call.input.keyword)
    \/ call.tool = "python_executor" /\ call.input.keyword
    \/ /\ call.tool = "file_reader"
       /\ \/ ~call.input.exists
          \/ ~call.input.is_file
          \/ call.input.too_large
          \/ call.input.extension = ".exe"

\* C21: every call of a tool's execute returns a Result (a dictionary with
\* success, result and error); a Result with success = False has an error
\* and an error type and no result, a Result with success = True has a
\* result and no error; an input that fails the tool's checks (disallowed
\* characters or a dangerous keyword in a calculator expression, a blocked
\* keyword in Python code) gets success = False and is not evaluated, and
\* an input whose evaluation raises gets success = False too.
C21_ToolFailuresAreData ==
    tool_call # <<>> =>
        LET call == tool_call[1]
            res == tool_result[1]
        IN /\ {"success", "result", "error"} \subseteq DOMAIN res
           /\ res.success \in BOOLEAN
           /\ res.tool = call.tool
           /\ ~res.success => /\ res.error # None
                              /\ res.error_type # None
                              /\ res.result = None
           /\ res.success => /\ res.result # None
                             /\ res.error = None
                             /\ res.ran
           /\ Rejected(call) => (~res.success /\ ~res.ran)
           /\ (call.tool = "calculator" /\ Rejected(call)) => res.error_type = "SecurityError"
           /\ (call.tool = "python_executor" /\ Rejected(call)) => res.error_type = "SecurityError"

\* The calculator was given an expression with disallowed characters that
\* eval would have evaluated to a value.
C21_Witness ==
    /\ tool_call # <<>>
    /\ tool_call[1].tool = "calculator"
    /\ ~tool_call[1].input.chars_ok
    /\ tool_call[1].input.eval = "int"
    /\ ~tool_result[1].success
    /\ ~tool_result[1].ran

\* The validator has just run on the scoring path (its LLM was called) and
\* the verdict it parsed is in validation_result.
ScoredVerdict ==
    /\ last_step.agent = "validator"
    /\ last_step.llm_called
    /\ validation_result # <<>>

\* C22: after a validator step on the scoring path the run is finished as
\* a success (validation_passed, final output compiled, is_complete) if
\* and only if the parsed verdict has valid = True and a score of at least
\* the threshold 0.8; any other verdict (valid with a lower score, or a
\* score at or above the threshold with valid = False) leaves
\* validation_passed False and either starts a retry or ends the run.
C22_DecisionRule ==
    ScoredVerdict =>
        LET vr == validation_result[1]
            good == vr.valid = TRUE /\ vr.score >= 80
        IN /\ good <=> validation_passed
           /\ good => /\ final_output # <<>>
                      /\ is_complete
                      /\ next_agent = "end"
           /\ ~good => /\ failed_validations > 0
                       /\ \/ /\ next_agent = "executor"
                             /\ ~is_complete
                             /\ retry_count > 0
                             /\ current_task_index = 0
                          \/ /\ next_agent = "end"
                             /\ is_complete

\* The scorer's verdict was valid = True with a score just below the
\* threshold, and the validator sent the run back to the executor.
C22_Witness ==
    /\ ScoredVerdict
    /\ validation_result[1].valid
    /\ validation_result[1].score = 79
    /\ ~validation_passed
    /\ next_agent = "executor"

\* The validator has just parsed an answer of the scorer that holds no JSON
\* verdict.
UnparseableVerdict ==
    /\ last_step.agent = "validator"
    /\ last_step.answer = "garbage"

\* C23: a scorer answer that cannot be parsed gives the verdict
\* valid = False, score = 0.0, and the validator handles it as a failed
\* validation: with retry_count < 2 it uses one retry (retry_count + 1,
\* current_task_index = 0, next_agent = "executor", the executor runs
\* next), otherwise the run ends with validation_passed = False.
C23_UnparseableIsFailedVerdict ==
    [][UnparseableVerdict' =>
           /\ validation_result' = <<[valid |-> FALSE, score |-> 0,
                                      feedback |-> "Invalid validation format"]>>
           /\ ~validation_passed'
           /\ failed_validations' = failed_validations + 1
           /\ IF retry_count < 2
              THEN /\ retry_count' = retry_count + 1
                   /\ current_task_index' = 0
                   /\ next_agent' = "executor"
                   /\ node' = "executor"
                   /\ ~is_complete'
                   /\ final_output' = final_output
              ELSE /\ retry_count' = retry_count
                   /\ is_complete'
                   /\ next_agent' = "end"
                   /\ node' = "END"]_vars

\* An unparseable answer arrived with one retry already used and used the
\* second one.
C23_Witness ==
    /\ UnparseableVerdict
    /\ retry_count = 2
    /\ next_agent = "executor"
    /\ current_task_index = 0

\* The validator's call of the scorer has just raised.
ScorerRaised ==
    /\ last_step.agent = "validator"
    /\ last_step.answer = "raise"

\* C24 as claimed: when the call of the scorer raises, the validator takes
\* the failed-validation decision of a verdict valid = False, score = 0.0:
\* with retry_count < 2 it uses a retry and the executor runs next, and
\* only with retry_count = 2 it compiles the final output and completes
\* the run.
C24_ScorerFailureRetries ==
    [][ScorerRaised' =>
           /\ ~validation_passed'
           /\ IF retry_count < 2
              THEN /\ retry_count' = retry_count + 1
                   /\ current_task_index' = 0
                   /\ next_agent' = "executor"
                   /\ node' = "executor"
                   /\ ~is_complete'
              ELSE /\ final_output' # <<>>
                   /\ is_complete'
                   /\ node' = "END"]_vars

\* The validator has just parsed a verdict and rejected it.
RejectedVerdict ==
    /\ last_step.agent = "validator"
    /\ last_step.answer \in {"json", "garbage"}
    /\ ~validation_passed

ExecutionProducedResult ==
    /\ node = "executor"
    /\ last_step'.agent = "executor"
    /\ last_step'.answer # None

\* What C26 says of such a step, and that no other step adds to tool_calls.
SuccessfulExecutionStep ==
    /\ ExecutionProducedResult =>
           LET i == current_task_index + 1
               id == task_plan[i].id
               result == task_plan'[i].result
           IN /\ current_task_index < Len(task_plan)
              /\ CheckDependencies(task_plan[i], task_plan)
              /\ task_plan'[i].status = COMPLETED
              /\ result # None
              /\ \A j \in DOMAIN task_plan : j # i => task_plan'[j] = task_plan[j]
              /\ id \in DOMAIN execution_results'
              /\ execution_results'[id] = result
              /\ Len(tool_calls') = Len(tool_calls) + 1
              /\ SubSeq(tool_calls', 1, Len(tool_calls)) = tool_calls
              /\ tool_calls'[Len(tool_calls')].task_id = id
              /\ tool_calls'[Len(tool_calls')].result = result
              /\ current_task_index' = current_task_index + 1
              /\ iteration_count' = iteration_count + 1
              /\ next_agent' \in {"executor", "validator"}
              /\ next_agent' = "executor" <=> current_task_index' < Len(task_plan')
              /\ node' = next_agent'
    /\ ~ExecutionProducedResult => tool_calls' = tool_calls

ExecutionRaised ==
    /\ node = "executor"
    /\ last_step'.agent = "executor"
    /\ last_step'.llm_called
    /\ last_step'.answer = None

Blocked(i, plan) ==
    LET blocked[n \in DOMAIN plan] ==
            \E k \in DOMAIN plan[n].dependencies :
                LET dep == plan[n].dependencies[k]
                IN \/ \A j \in DOMAIN plan : plan[j].id # dep
                   \/ \E j \in DOMAIN plan : /\ plan[j].id = dep
                                              /\ (j >= n \/ blocked[j])
    IN blocked[i]

BlockedTasks == {i \in DOMAIN task_plan : Blocked(i, task_plan)}

\* The task at position i has a dependency whose id names no task of the
\* plan, or the task itself or a task placed later.
DirectlyBlocked(i) ==
    \E k \in DOMAIN task_plan[i].dependencies :
        \A j \in 1..(i - 1) : task_plan[j].id # task_plan[i].dependencies[k]

\* The first blocked task in plan order (a task that is blocked only
\* through earlier tasks comes after a directly blocked one).
FirstBlocked ==
    CHOOSE i \in DOMAIN task_plan :
        DirectlyBlocked(i) /\ \A j \in 1..(i - 1) : ~DirectlyBlocked(j)

\* No LLM call or tool call has been made for the task at position j.
NeverAttempted(j) ==
    /\ task_plan[j].status \in {PENDING, FAILED}
    /\ task_plan[j].result = None
    /\ task_plan[j].id \notin DOMAIN execution_results
    /\ \A c \in DOMAIN tool_calls : tool_calls[c].task_id # task_plan[j].id
    /\ (last_step.agent = "executor" /\ last_step.task = task_plan[j].id) =>
           (~last_step.llm_called /\ last_step.tool_called = None)
    /\ current_task_index < j

\* C28 as claimed: a task with a dependency that can never be completed is
\* never attempted, nor is any task after it; the run uses at most 2
\* retries; and in the final state of the run every such task is failed.
C28_BlockedTaskFailedAtEnd ==
    /\ \A i \in BlockedTasks : \A j \in i..Len(task_plan) : NeverAttempted(j)
    /\ retry_count <= 2
    /\ node = "END" => \A i \in BlockedTasks : task_plan[i].status = FAILED

\* C28, amended: the first task in plan order with a dependency that can
\* never be completed is failed at the dependency check (without a call of
\* the LLM or of a tool) in every pass that reaches it, that is, whenever
\* the executor hands over to the validator with the cursor on it; neither
\* it nor any task after it is ever attempted, and the tasks after it stay
\* pending; the run uses at most 2 retries and validates at most 3 times;
\* and in the final state the task is failed if the last pass reached it
\* and pending otherwise.
C28_BlockedTaskNeverAttempted ==
    (\E i \in DOMAIN task_plan : DirectlyBlocked(i)) =>
        LET f == FirstBlocked
        IN /\ \A j \in f..Len(task_plan) : NeverAttempted(j)
           /\ \A j \in (f + 1)..Len(task_plan) : task_plan[j].status = PENDING
           /\ (node = "validator" /\ current_task_index = f - 1) =>
                  /\ task_plan[f].status = FAILED
                  /\ last_step.agent = "executor"
                  /\ last_step.task = task_plan[f].id
                  /\ ~last_step.llm_called
                  /\ last_step.tool_called = None
           /\ (node = "validator" /\ current_task_index < f - 1) =>
                  task_plan[f].status = PENDING
           /\ retry_count <= 2
           /\ visits["validator"] <= 3
           /\ node = "END" =>
                  /\ current_task_index = f - 1 => task_plan[f].status = FAILED
                  /\ current_task_index < f - 1 => task_plan[f].status = PENDING

\* A run whose second task depends on an id of no task ended after two
\* retries: the first task was executed, the second is failed.
C28_Witness ==
    /\ node = "END"
    /\ BlockedTasks = {2}
    /\ \A j \in DOMAIN task_plan : task_plan[2].dependencies[1] # task_plan[j].id
    /\ retry_count = 2
    /\ task_plan[1].status = COMPLETED
    /\ task_plan[2].status = FAILED
    /\ Len(tool_calls) = 3

IsPrefix(before, after) ==
    /\ Len(before) <= Len(after)
    /\ SubSeq(after, 1, Len(before)) = before

\* C31: tool_calls, errors and warnings only grow by appending: after every
\* step of a node each of them begins with the value it had before the
\* step, in the retry passes as in the first.
C31_LogsAppendOnly ==
    [][/\ IsPrefix(tool_calls, tool_calls')
       /\ IsPrefix(errors, errors')
       /\ IsPrefix(warnings, warnings')]_vars

\* A run with two retries: two retry warnings, an error of each pass, and
\* tool_calls entries of more than one pass.
C31_Witness ==
    /\ retry_count = 2
    /\ Len(warnings) >= 2
    /\ Len(errors) >= 3
    /\ Len(tool_calls) >= 2
    /\ node = "END"

\* The position in the plan of the task with the given id.
PositionOf(id) == CHOOSE i \in DOMAIN task_plan : task_plan[i].id = id

\* C32 as claimed: the compiled final output has one entry for each task
\* of the plan, in plan order, with the result of a completed task and the
\* error of a failed one, whatever the status of the task, and then the
\* feedback of the verdict.
C32_OutputListsEveryTask ==
    final_output # <<>> =>
        LET out == final_output[1]
        IN /\ Len(out.tasks) = Len(task_plan)
           /\ \A k \in DOMAIN out.tasks : out.tasks[k].task = task_plan[k].id
           /\ validation_result # <<>> =>
                  out.validation = <<validation_result[1].feedback>>

\* C32, amended: the compiled final output has one entry for each task of
\* the plan that is completed or failed, in plan order, with the result of
\* a completed task and the error of a failed one; a task with any other
\* status is not listed; the feedback of the verdict follows when there
\* is a verdict.
C32_OutputListsFinishedTasks ==
    final_output # <<>> =>
        LET out == final_output[1]
            listed == {out.tasks[k].task : k \in DOMAIN out.tasks}
        IN /\ listed = {task_plan[i].id : i \in {j \in DOMAIN task_plan :
                                  task_plan[j].status \in {COMPLETED, FAILED}}}
           /\ \A k, m \in DOMAIN out.tasks :
                  k < m => PositionOf(out.tasks[k].task) < PositionOf(out.tasks[m].task)
           /\ \A k \in DOMAIN out.tasks :
                  LET t == task_plan[PositionOf(out.tasks[k].task)]
                  IN /\ t.status = COMPLETED =>
                            (out.tasks[k].mark = "done" /\ out.tasks[k].text = t.result)
                     /\ t.status = FAILED =>
                            (out.tasks[k].mark = "failed" /\ out.tasks[k].text = t.error)
           /\ out.validation = IF validation_result # <<>>
                                THEN <<validation_result[1].feedback>>
                                ELSE <<>>

\* The run ended after two retries with its first task failed and its
\* second task still pending: the output lists the first task only.
C32_Witness ==
    /\ node = "END"
    /\ final_output # <<>>
    /\ Len(task_plan) = 2
    /\ task_plan[1].status = FAILED
    /\ task_plan[2].status = PENDING
    /\ Len(final_output[1].tasks) = 1
    /\ final_output[1].tasks[1].mark = "failed"

\* C33: in every state between two node invocations no task has the
\* status in_progress, and after a step of the executor that selected a
\* task (completing it, failing it at the dependency check or failing it
\* in the except clause) that task is completed or failed.
C33_NoTaskLeftInProgress ==
    /\ \A i \in DOMAIN task_plan : task_plan[i].status # IN_PROGRESS
    /\ (last_step.agent = "executor" /\ last_step.task # None) =>
           StepTask.status \in {COMPLETED, FAILED}

\* In the first pass the LLM call raised after the task had been set to
\* in_progress: the executor returned with the task failed.
C33_Witness ==
    /\ last_step.agent = "executor"
    /\ last_step.llm_called
    /\ last_step.answer = None
    /\ retry_count = 0
    /\ node = "validator"
    /\ StepTask.status = FAILED
    /\ StepTask.result = None

FailedTasks == {i \in DOMAIN task_plan : task_plan[i].status = FAILED}

\* C34: between two node invocations at most one task of the plan is
\* failed, and no task is failed when the executor is about to run (a
\* failure hands over to the validator, which ends the run or resets the
\* failed task to pending before the executor runs again).
C34_AtMostOneFailed ==
    /\ Cardinality(FailedTasks) <= 1
    /\ node = "executor" => FailedTasks = {}
    /\ FailedTasks # {} =>
           \/ node = "validator" /\ last_step.agent = "executor"
           \/ node \in {"memory", "END"} /\ is_complete

\* The validator has just started the second retry of a run in which a
\* task had failed: the executor is about to run and no task is failed.
C34_Witness ==
    /\ node = "executor"
    /\ last_step.agent = "validator"
    /\ retry_count = 2
    /\ Len(errors) >= 2
    /\ FailedTasks = {}

\* C35: between two node invocations every task at a position below the
\* cursor is completed; when the validator is about to run with the cursor
\* at the end of the plan every task is completed, and when it is about to
\* run with the cursor inside the plan the task at the cursor is failed.
C35_CompletedBelowCursor ==
    /\ current_task_index \in 0..Len(task_plan)
    /\ \A i \in 1..current_task_index : task_plan[i].status = COMPLETED
    /\ (node = "validator" /\ current_task_index = Len(task_plan)) =>
           \A i \in DOMAIN task_plan : task_plan[i].status = COMPLETED
    /\ (node = "validator" /\ current_task_index < Len(task_plan)) =>
           TaskAt(current_task_index).status = FAILED

\* In a retry pass the first task was completed again and the second
\* failed: the validator is about to run with the cursor on the second.
C35_Witness ==
    /\ node = "validator"
    /\ retry_count = 1
    /\ Len(task_plan) = 2
    /\ current_task_index = 1
    /\ task_plan[1].status = COMPLETED
    /\ task_plan[2].status = FAILED

\* C36: every completed task has an entry in execution_results under its
\* id, equal to the task's result field (task ids are unique in a plan);
\* and the results in the context of the latest LLM call of the executor
\* are the result fields of the tasks they are attributed to.
C36_ResultsMatchCompletedTasks ==
    /\ \A i \in DOMAIN task_plan :
           task_plan[i].status = COMPLETED =>
               /\ task_plan[i].id \in DOMAIN execution_results
               /\ execution_results[task_plan[i].id] = task_plan[i].result
    /\ (last_step.agent = "executor" /\ last_step.llm_called) =>
           \A k \in DOMAIN last_step.context :
               \E i \in DOMAIN task_plan :
                   /\ task_plan[i].id = last_step.context[k].task_id
                   /\ task_plan[i].result = last_step.context[k].result

\* A task was executed in two passes with different results: it is
\* completed and the recorded result is the later one.
C36_Witness ==
    \E a, b \in DOMAIN tool_calls :
        /\ a < b
        /\ tool_calls[a].task_id = tool_calls[b].task_id
        /\ tool_calls[a].result # tool_calls[b].result
        /\ \A c \in DOMAIN tool_calls :
               c > b => tool_calls[c].task_id # tool_calls[b].task_id
        /\ \E i \in DOMAIN task_plan :
               /\ task_plan[i].id = tool_calls[b].task_id
               /\ task_plan[i].status = COMPLETED
               /\ execution_results[task_plan[i].id] = tool_calls[b].result

\* C37: errors is never emptied, and a step of the validator that starts
\* with a recorded error never auto-validates: it does not pass the run
\* without calling the scorer, and when it passes the run it does so on a
\* verdict of the scorer that is valid with a score of at least 0.8.
C37_NoFastPathAfterError ==
    [][errors # <<>> =>
           /\ errors' # <<>>
           /\ node = "validator" =>
                  /\ validation_result' # <<AutoValidated>>
                  /\ validation_passed' =>
                         /\ last_step'.llm_called
                         /\ last_step'.answer = "json"
                         /\ validation_result'[1].valid
                         /\ validation_result'[1].score >= Threshold]_vars

\* After an error in the first pass a retry completed every task by a
\* call of the calculator; the validator called the scorer and passed the
\* run on its verdict.
C37_Witness ==
    /\ last_step.agent = "validator"
    /\ last_step.llm_called
    /\ validation_passed
    /\ retry_count > 0
    /\ errors # <<>>
    /\ calculator_only
    /\ tool_calls # <<>>
    /\ \A k \in DOMAIN tool_calls : MentionsCalculator(tool_calls[k].result)
    /\ \A i \in DOMAIN task_plan : task_plan[i].status = COMPLETED

\* C38: in a run of the graph the validator is only entered with a plan
\* that is not empty and has a completed or a failed task, so its branch
\* for a state with nothing to validate is never taken (a validator step
\* that did not call the scorer is an auto-validation); and the executor
\* is only entered with a plan that is not empty.
C38_ValidatorHasTasks ==
    /\ node = "validator" =>
           /\ task_plan # <<>>
           /\ ~NothingToValidate(task_plan)
           /\ last_step.agent = "executor"
    /\ node = "executor" => task_plan # <<>>
    /\ (last_step.agent = "validator" /\ ~last_step.llm_called) =>
           (validation_passed /\ validation_result = <<AutoValidated>>)

\* The validator is about to run for the third time on a plan whose first
\* task failed again and whose second task was never reached.
C38_Witness ==
    /\ node = "validator"
    /\ retry_count = 2
    /\ Len(task_plan) = 2
    /\ task_plan[1].status = FAILED
    /\ task_plan[2].status = PENDING

====
